---- MODULE Spec2Model ----
(***************************************************************************)
(* Black-Scholes option pricing: the BlackScholes class (BlackScholes.py)  *)
(* and the two sweep functions plot_heatmap / plot_pnl_heatmap of          *)
(* streamlit_app.py.                                                       *)
(*                                                                         *)
(* Floats are fixed-point numbers: a finite value is an integer count of   *)
(* 1/Q units together with the IEEE special values +inf, -inf and nan.     *)
(* Every value remembers whether it is a numpy scalar (np) or a plain      *)
(* Python number: dividing two plain Python numbers by zero raises         *)
(* ZeroDivisionError, while numpy returns inf or nan with a warning.       *)
(* The two option prices are the difference of two products of scale-Q     *)
(* operands; these products are kept unrounded, so a price counts units    *)
(* of 1/(Q*Q).                                                             *)
(***************************************************************************)
EXTENDS Integers, Sequences, FiniteSets, TLC

\* Fixed-point scale of a float: 1.0 is Q units.
Q == 1000

\* ---------------------------------------------------------------- bounds
\* Longest sweep axis (the application uses 10 points on both axes).
MaxPoints == 3
\* Most cells of a sweep whose cells are evaluated in every order.
MaxAnyOrderCells == 4

\* ------------------------------------------------------- float values
Fin(n, isnp) == [k |-> "fin", v |-> n, np |-> isnp]
PInf == [k |-> "pinf", v |-> 0, np |-> TRUE]
NInf == [k |-> "ninf", v |-> 0, np |-> TRUE]
NaN == [k |-> "nan", v |-> 0, np |-> TRUE]
\* An exception in flight: it replaces the value of every enclosing expression.
Raised(name) == [k |-> "raise", v |-> 0, np |-> FALSE, exc |-> name]

IsRaised(a) == a.k = "raise"
IsFinite(a) == a.k = "fin"

Abs(n) == IF n < 0 THEN -n ELSE n

\* n / d rounded to the nearest integer, d # 0.
RDiv(n, d) ==
    IF d > 0 THEN (2 * n + d) \div (2 * d) ELSE (2 * (-n) + (-d)) \div (2 * (-d))

\* Sign of a non-nan value: -1, 0 or 1.
Sgn(a) ==
    IF a.k = "pinf" THEN 1
    ELSE IF a.k = "ninf" THEN -1
    ELSE IF a.v > 0 THEN 1 ELSE IF a.v < 0 THEN -1 ELSE 0

SignedInf(s) == IF s > 0 THEN PInf ELSE IF s < 0 THEN NInf ELSE NaN

FNeg(a) ==
    IF a.k = "fin" THEN Fin(-a.v, a.np)
    ELSE IF a.k = "pinf" THEN NInf
    ELSE IF a.k = "ninf" THEN PInf
    ELSE a

FAdd(a, b) ==
    IF IsRaised(a) THEN a
    ELSE IF IsRaised(b) THEN b
    ELSE IF a.k = "nan" \/ b.k = "nan" THEN NaN
    ELSE IF a.k = "fin" /\ b.k = "fin" THEN Fin(a.v + b.v, a.np \/ b.np)
    ELSE IF a.k = "fin" THEN b
    ELSE IF b.k = "fin" THEN a
    ELSE IF a.k = b.k THEN a ELSE NaN

FSub(a, b) == FAdd(a, FNeg(b))

\* a * b, the product of the two integers divided by den (Q: a scale-Q
\* result, rounded; 1: the unrounded product, of scale Q*Q).
FMulBy(a, b, den) ==
    IF IsRaised(a) THEN a
    ELSE IF IsRaised(b) THEN b
    ELSE IF a.k = "nan" \/ b.k = "nan" THEN NaN
    ELSE IF a.k = "fin" /\ b.k = "fin" THEN Fin(RDiv(a.v * b.v, den), a.np \/ b.np)
    ELSE SignedInf(Sgn(a) * Sgn(b))

FMul(a, b) == FMulBy(a, b, Q)
FMulW(a, b) == FMulBy(a, b, 1)

\* a / b. Two plain Python numbers with b = 0: ZeroDivisionError. With a
\* numpy operand: x/0 is +-inf, 0/0 is nan.
FDiv(a, b) ==
    IF IsRaised(a) THEN a
    ELSE IF IsRaised(b) THEN b
    ELSE IF ~a.np /\ ~b.np /\ b.k = "fin" /\ b.v = 0 THEN Raised("ZeroDivisionError")
    ELSE IF a.k = "nan" \/ b.k = "nan" THEN NaN
    ELSE IF a.k = "fin" /\ b.k = "fin"
         THEN IF b.v = 0 THEN SignedInf(Sgn(a))
              ELSE Fin(RDiv(a.v * Q, b.v), a.np \/ b.np)
    ELSE IF a.k = "fin" THEN Fin(0, TRUE)
    ELSE IF b.k = "fin" THEN SignedInf(Sgn(a) * (IF b.v < 0 THEN -1 ELSE 1))
    ELSE NaN

\* ------------------------------------------------ numpy / scipy primitives
\* Largest r with r*r <= n, by bisection on lo..hi.
RECURSIVE ISqrtIn(_, _, _)
ISqrtIn(n, lo, hi) ==
    IF lo >= hi THEN lo
    ELSE LET mid == (lo + hi + 1) \div 2
         IN IF mid * mid <= n THEN ISqrtIn(n, mid, hi) ELSE ISqrtIn(n, lo, mid - 1)

\* sqrt of x/Q in units of 1/Q.
SqrtQ(x) == ISqrtIn(x * Q, 0, 46340)

\* ln of x/Q in units of 1/Q, x > 0: halving or doubling into [1/2, 2], then
\* ln x = 2 atanh((x-1)/(x+1)).
RECURSIVE LnQ(_)
LnQ(x) ==
    IF x > 2 * Q THEN 693 + LnQ(RDiv(x, 2))
    ELSE IF 2 * x < Q THEN LnQ(2 * x) - 693
    ELSE LET y == RDiv((x - Q) * Q, x + Q)
             y2 == RDiv(y * y, Q)
             y3 == RDiv(y * y2, Q)
             y5 == RDiv(y3 * y2, Q)
         IN 2 * y + RDiv(2 * y3, 3) + RDiv(2 * y5, 5)

\* e^(x/Q) in units of 1/Q, for x <= 7*Q: e^x = e^(x/2) * e^(x - x/2) down to
\* |x| <= 1/8, then the Taylor polynomial of degree 3.
RECURSIVE ExpQ(_)
ExpQ(x) ==
    IF x < -20 * Q THEN 0
    ELSE IF Abs(x) > Q \div 8
         THEN LET h == x \div 2 IN RDiv(ExpQ(h) * ExpQ(x - h), Q)
    ELSE Q + x + RDiv(x * x, 2 * Q) + RDiv(x * x * x, 6 * Q * Q)

\* Standard normal density at x/Q in units of 1/Q: e^(-x^2/2) / sqrt(2 pi).
PdfQ(x) == IF Abs(x) > 10 * Q THEN 0 ELSE RDiv(399 * ExpQ(-RDiv(x * x, 2 * Q)), Q)

\* Standard normal distribution function at x/Q in units of 1/Q. For x >= 0
\* the complement is the density times a polynomial in t = 1/(1 + 0.2316 x);
\* for x < 0 it is the complement of the value at -x.
RECURSIVE CdfQ(_)
CdfQ(x) ==
    IF x < 0 THEN Q - CdfQ(-x)
    ELSE IF x > 10 * Q THEN Q
    ELSE LET t == RDiv(Q * Q, Q + RDiv(232 * x, Q))
             p5 == 1330
             p4 == RDiv(t * p5, Q) - 1821
             p3 == RDiv(t * p4, Q) + 1781
             p2 == RDiv(t * p3, Q) - 357
             p1 == RDiv(t * p2, Q) + 319
             tail == RDiv(PdfQ(x) * RDiv(t * p1, Q), Q)
         IN IF tail > Q \div 2 THEN Q \div 2 ELSE IF tail < 0 THEN Q ELSE Q - tail

\* numpy.log
FLog(a) ==
    IF IsRaised(a) THEN a
    ELSE IF a.k = "nan" \/ a.k = "ninf" THEN NaN
    ELSE IF a.k = "pinf" THEN PInf
    ELSE IF a.v < 0 THEN NaN
    ELSE IF a.v = 0 THEN NInf
    ELSE Fin(LnQ(a.v), TRUE)

\* numpy.sqrt
FSqrt(a) ==
    IF IsRaised(a) THEN a
    ELSE IF a.k = "nan" \/ a.k = "ninf" THEN NaN
    ELSE IF a.k = "pinf" THEN PInf
    ELSE IF a.v < 0 THEN NaN
    ELSE Fin(SqrtQ(a.v), TRUE)

\* numpy.exp
FExp(a) ==
    IF IsRaised(a) THEN a
    ELSE IF a.k = "nan" THEN NaN
    ELSE IF a.k = "ninf" THEN Fin(0, TRUE)
    ELSE IF a.k = "pinf" \/ a.v > 7 * Q THEN PInf
    ELSE Fin(ExpQ(a.v), TRUE)

\* scipy.stats.norm.cdf
Cdf(a) ==
    IF IsRaised(a) THEN a
    ELSE IF a.k = "nan" THEN NaN
    ELSE IF a.k = "pinf" THEN Fin(Q, TRUE)
    ELSE IF a.k = "ninf" THEN Fin(0, TRUE)
    ELSE Fin(CdfQ(a.v), TRUE)

\* scipy.stats.norm.pdf
Pdf(a) ==
    IF IsRaised(a) THEN a
    ELSE IF a.k = "nan" THEN NaN
    ELSE IF a.k = "pinf" \/ a.k = "ninf" THEN Fin(0, TRUE)
    ELSE Fin(PdfQ(a.v), TRUE)

\* ------------------------------------------------------- Python values
PyNone == [type |-> "NoneType"]
PyTuple2(a, b) == [type |-> "tuple", items |-> <<a, b>>]

\* `x, y = value`: a 2-tuple binds both names; None is not iterable.
Unpack2(value) ==
    IF value.type = "tuple"
    THEN [exc |-> "none", first |-> value.items[1], second |-> value.items[2]]
    ELSE [exc |-> "TypeError", first |-> PyNone, second |-> PyNone]

ParamNames ==
    {"time_to_maturity", "strike", "current_price", "volatility", "interest_rate"}
OutputNames ==
    {"call_price", "put_price", "call_delta", "put_delta", "call_gamma", "put_gamma"}

\* obj.name: the attribute's value, or AttributeError when the instance has
\* no such attribute.
GetAttr(obj, name) ==
    IF name \in DOMAIN obj THEN obj[name] ELSE Raised("AttributeError")

\* ------------------------------------------------------ class BlackScholes
\* An instance is its attribute dictionary: __init__ sets the five parameters.
BlackScholes(T, K, S, sigma, r) ==
    [time_to_maturity |-> T, strike |-> K, current_price |-> S,
     volatility |-> sigma, interest_rate |-> r]

Half == Fin(Q \div 2, FALSE)
One == Fin(Q, FALSE)

calculate_d1(T, K, S, sigma, r) ==
    FDiv(FAdd(FLog(FDiv(S, K)),
              FMul(FAdd(r, FMul(Half, FMul(sigma, sigma))), T)),
         FMul(sigma, FSqrt(T)))

calculate_d2(T, sigma, d1) == FSub(d1, FMul(sigma, FSqrt(T)))

call_option_price(T, K, S, r, d1, d2) ==
    FSub(FMulW(S, Cdf(d1)),
         FMulW(FMul(K, FExp(FNeg(FMul(r, T)))), Cdf(d2)))

\* A slip in put_option_price: N(d2) and N(d1) in place of N(-d2) and N(-d1).
put_option_price_SameSign(T, K, S, r, d1, d2) ==
    FSub(FMulW(FMul(K, FExp(FNeg(FMul(r, T)))), Cdf(d2)),
         FMulW(S, Cdf(d1)))

put_option_price(T, K, S, r, d1, d2) ==
    FSub(FMulW(FMul(K, FExp(FNeg(FMul(r, T)))), Cdf(FNeg(d2))),
         FMulW(S, Cdf(FNeg(d1))))

\* A slip in set_option_prices: the call price stored as self.current_price.
set_option_prices_WrongName(self, call, put) ==
    [current_price |-> call, call_price |-> call, put_price |-> put] @@ self

set_option_prices(self, call, put) ==
    [call_price |-> call, put_price |-> put] @@ self

\* calculate_greeks_delta with the textbook put delta N(d1) - 1.
calculate_greeks_delta_Textbook(self, d1) ==
    [call_delta |-> Cdf(d1), put_delta |-> FSub(Cdf(d1), One)] @@ self

calculate_greeks_delta(self, d1) ==
    [call_delta |-> Cdf(d1), put_delta |-> FSub(One, Cdf(d1))] @@ self

\* calculate_greeks_gamma without its last line: put_gamma is never set.
calculate_greeks_gamma_NoPut(self, T, K, sigma, d1) ==
    [call_gamma |-> FDiv(Pdf(d1), FMul(FMul(K, sigma), FSqrt(T)))] @@ self

calculate_greeks_gamma(self, T, K, sigma, d1) ==
    LET gamma == FDiv(Pdf(d1), FMul(FMul(K, sigma), FSqrt(T)))
    IN [call_gamma |-> gamma, put_gamma |-> gamma] @@ self

\* What run() hands back: the method has no return statement.
run_return(self) == PyNone

\* Lines 45-56 of run(): the instance with its six outputs set.
run_outputs(self, d1, d2) ==
    calculate_greeks_gamma(
        calculate_greeks_delta(
            set_option_prices(
                self,
                call_option_price(self.time_to_maturity, self.strike,
                                  self.current_price, self.interest_rate, d1, d2),
                put_option_price(self.time_to_maturity, self.strike,
                                 self.current_price, self.interest_rate, d1, d2)),
            d1),
        self.time_to_maturity, self.strike, self.volatility, d1)

\* run() from line 44 on, d1 computed; an exception raised while computing
\* d1 ends the call before any output is set.
run_from_d1(self, d1) ==
    IF IsRaised(d1)
    THEN [exc |-> d1.exc, self |-> self, ret |-> PyNone]
    ELSE [exc |-> "none",
          self |-> run_outputs(self, d1,
                               calculate_d2(self.time_to_maturity, self.volatility, d1)),
          ret |-> run_return(self)]

\* self.run(): the instance afterwards, the exception that ended the call
\* ("none" when it completed) and the value returned.
run(self) ==
    run_from_d1(self, calculate_d1(self.time_to_maturity, self.strike,
                                   self.current_price, self.volatility,
                                   self.interest_rate))

\* `call_price, put_price = <instance>.run()`, res being what run() did: the
\* exception, if any, the instance, and the two names when they get bound.
unpack_run(res, pair) ==
    [exc |-> IF res.exc # "none" THEN res.exc ELSE pair.exc,
     self |-> res.self,
     names |-> IF res.exc = "none" /\ pair.exc = "none"
               THEN [bound |-> TRUE,
                     value |-> [call_price |-> pair.first, put_price |-> pair.second]]
               ELSE [bound |-> FALSE]]

run_and_unpack(res) == unpack_run(res, Unpack2(res.ret))

\* ------------------------------------------------------------ the inputs
\* Plain Python numbers, as st.number_input and the literals of __main__ give.
Py(n) == Fin(n, FALSE)

TimeValues == {Py(0), Py(2 * Q)}
StrikeValues == {Py(0), Py(90 * Q), Py(100 * Q)}
SpotValues == {Py(0), Py(100 * Q)}
VolValues == {Py(0), Py(200)}
RateValues == {Py(-50), Py(0), Py(50)}
SweepStrikes == {Py(90 * Q), Py(100 * Q)}
PurchaseCallValues == {Py(5 * Q), Py(10 * Q)}
PurchasePutValues == {Py(10 * Q)}
\* <<min, max>> of an axis; the sidebar keeps both at or above 0.01.
SpotBounds == {<<80 * Q, 120 * Q>>}
VolBounds == {<<100, 300>>}

\* numpy.linspace(lo, hi, num): num evenly spaced numpy floats from lo to hi.
Linspace(lo, hi, num) ==
    [p \in 1..num |->
        Fin(IF num = 1 THEN lo ELSE lo + RDiv((p - 1) * (hi - lo), num - 1), TRUE)]

SpotAxes == {Linspace(b[1], b[2], num) : b \in SpotBounds, num \in 1..MaxPoints}
VolAxes == {Linspace(b[1], b[2], num) : b \in VolBounds, num \in 1..MaxPoints}

\* numpy.zeros((rows, cols))
Zeros(rows, cols) == [a \in 1..rows |-> [b \in 1..cols |-> Fin(0, TRUE)]]

\* M[a, b] = x
SetCell(M, a, b, x) == [M EXCEPT ![a][b] = x]

\* Python's max(0, x) for a finite x.
Max0(x) == IF x.v > 0 THEN x ELSE Fin(0, FALSE)

\* -------------------------------------------------------------- the state
NoObject == [type |-> "NoneType"]
Unbound == [bound |-> FALSE]

VARIABLES
    bs_model,             \* the module-level instance, NoObject before it exists
    exc,                  \* the exception that ended the last operation, or "none"
    current,              \* call_price, put_price bound by streamlit_app.py:122
    got,                  \* the attribute read last: its name and its value
    pc,                   \* "idle", "line122" (the page evaluated its current
                          \* point), the sweep in progress, "returned", "raised"
    spot_range, vol_range, strike,             \* the sweep's arguments
    purchase_price_call, purchase_price_put,
    i, j,                 \* loop indices (from 1), the cell to evaluate next
    bs_temp,              \* the loop body's instance
    cell_prices,          \* call_price, put_price bound by streamlit_app.py:141
    call_prices, put_prices,                   \* plot_heatmap's matrices
    call_pnl, put_pnl,                         \* plot_pnl_heatmap's matrices
    order,                \* history: the cells whose evaluation began, in order
    writes                \* history: how often each matrix cell was assigned

objVars == <<bs_model, exc, current, got>>
argVars == <<spot_range, vol_range, strike, purchase_price_call, purchase_price_put>>
loopVars == <<i, j, bs_temp, cell_prices, call_prices, put_prices, call_pnl, put_pnl,
              order, writes>>
vars == <<objVars, pc, argVars, loopVars>>

Init ==
    /\ bs_model = NoObject
    /\ exc = "none"
    /\ current = Unbound
    /\ got = Unbound
    /\ pc = "idle"
    /\ spot_range = <<>>
    /\ vol_range = <<>>
    /\ strike = Py(0)
    /\ purchase_price_call = Py(0)
    /\ purchase_price_put = Py(0)
    /\ i = 1
    /\ j = 1
    /\ bs_temp = NoObject
    /\ cell_prices = Unbound
    /\ call_prices = <<>>
    /\ put_prices = <<>>
    /\ call_pnl = <<>>
    /\ put_pnl = <<>>
    /\ order = <<>>
    /\ writes = <<>>

Idle == pc = "idle" /\ exc = "none" /\ got = Unbound /\ current = Unbound

\* The page evaluates bs_model (line 122) before it calls a sweep (262-281).
HasRun(obj) == obj # NoObject /\ OutputNames \subseteq DOMAIN obj

\* BS = BlackScholes(...)
Construct(T, K, S, sigma, r) ==
    /\ Idle
    /\ bs_model = NoObject
    /\ bs_model' = BlackScholes(T, K, S, sigma, r)
    /\ UNCHANGED <<exc, current, got, pc, argVars, loopVars>>

\* BS.run()
RunDo(res) ==
    /\ bs_model' = res.self
    /\ exc' = res.exc

Run ==
    /\ Idle
    /\ bs_model # NoObject
    /\ RunDo(run(bs_model))
    /\ UNCHANGED <<current, got, pc, argVars, loopVars>>

\* BS.<name> read by a caller
ReadDo(name, x) ==
    /\ exc' = IF IsRaised(x) THEN x.exc ELSE exc
    /\ got' = [bound |-> TRUE, name |-> name, value |-> x]

ReadAttr(name) ==
    /\ Idle
    /\ bs_model # NoObject
    /\ ReadDo(name, GetAttr(bs_model, name))
    /\ UNCHANGED <<bs_model, current, pc, argVars, loopVars>>

\* streamlit_app.py:120-122: the current-point evaluation of the page.
CurrentPointDo(out) ==
    /\ bs_model' = out.self
    /\ exc' = out.exc
    /\ current' = out.names

CurrentPoint(T, K, S, sigma, r) ==
    /\ Idle
    /\ bs_model = NoObject
    /\ CurrentPointDo(run_and_unpack(run(BlackScholes(T, K, S, sigma, r))))
    /\ pc' = "line122"
    /\ UNCHANGED <<got, argVars, loopVars>>

\* ------------------------------------------------------------ the sweeps
\* A slip in the sweep's constructor call: the base model's strike in place
\* of the strike argument.
CellModel_BaseStrike(base, K, spot, vol) ==
    BlackScholes(base.time_to_maturity, base.strike, spot, vol, base.interest_rate)

\* The instance a sweep builds for one cell (streamlit_app.py:134-140, 174-180).
CellModel(base, K, spot, vol) ==
    BlackScholes(base.time_to_maturity, K, spot, vol, base.interest_rate)

\* The loops nested the other way round: rows inside columns.
NextCell_ColumnMajor(ci, cj, rows, cols) ==
    IF ci < rows THEN [i |-> ci + 1, j |-> cj, last |-> FALSE]
    ELSE IF cj < cols THEN [i |-> 1, j |-> cj + 1, last |-> FALSE]
    ELSE [i |-> ci, j |-> cj, last |-> TRUE]

\* The cell after (ci, cj) in `for i ...: for j ...:` over rows x cols cells;
\* last is TRUE when (ci, cj) ends both loops, which leave i and j as they are.
NextCell(ci, cj, rows, cols) ==
    IF cj < cols THEN [i |-> ci, j |-> cj + 1, last |-> FALSE]
    ELSE IF ci < rows THEN [i |-> ci + 1, j |-> 1, last |-> FALSE]
    ELSE [i |-> ci, j |-> cj, last |-> TRUE]

Counts(rows, cols) == [a \in 1..rows |-> [b \in 1..cols |-> 0]]
Bump(C, a, b) == [C EXCEPT ![a][b] = @ + 1]

\* plot_heatmap(bs_model, spot_range, vol_range, strike), up to the loops.
HeatmapStart(spots, vols, K) ==
    /\ Idle
    /\ HasRun(bs_model)
    /\ pc' = "plot_heatmap"
    /\ spot_range' = spots
    /\ vol_range' = vols
    /\ strike' = K
    /\ call_prices' = Zeros(Len(vols), Len(spots))
    /\ put_prices' = Zeros(Len(vols), Len(spots))
    /\ writes' = [call |-> Counts(Len(vols), Len(spots)),
                  put |-> Counts(Len(vols), Len(spots))]
    /\ order' = <<>>
    /\ i' = 1
    /\ j' = 1
    /\ UNCHANGED <<objVars, purchase_price_call, purchase_price_put, bs_temp,
                   cell_prices, call_pnl, put_pnl>>

\* Lines 182-183 for the cell (ci, cj): res is what bs_temp.run() did, c and
\* p are bs_temp.call_price and bs_temp.put_price.
heatmap_write(res, c, p, ci, cj) ==
    [exc |-> IF res.exc # "none" THEN res.exc
             ELSE IF IsRaised(c) THEN c.exc
             ELSE IF IsRaised(p) THEN p.exc ELSE "none",
     bs_temp |-> res.self,
     call_prices |-> IF res.exc = "none" /\ ~IsRaised(c)
                     THEN SetCell(call_prices, ci, cj, c) ELSE call_prices,
     put_prices |-> IF res.exc = "none" /\ ~IsRaised(c) /\ ~IsRaised(p)
                    THEN SetCell(put_prices, ci, cj, p) ELSE put_prices,
     writes |-> [call |-> IF res.exc = "none" /\ ~IsRaised(c)
                          THEN Bump(writes.call, ci, cj) ELSE writes.call,
                 put |-> IF res.exc = "none" /\ ~IsRaised(c) /\ ~IsRaised(p)
                         THEN Bump(writes.put, ci, cj) ELSE writes.put]]

heatmap_store(res, ci, cj) ==
    heatmap_write(res, GetAttr(res.self, "call_price"),
                  GetAttr(res.self, "put_price"), ci, cj)

\* A loop body that keeps the bs_temp of the cell evaluated before it, when
\* there is one, in place of constructing its own.
heatmap_cell_Reuse(ci, cj) ==
    heatmap_store(
        run(IF bs_temp # NoObject THEN bs_temp
            ELSE CellModel(bs_model, strike, spot_range[cj], vol_range[ci])),
        ci, cj)

\* What one pass of plot_heatmap's loop body (lines 174-183) does for the
\* cell (ci, cj): the new bs_temp, the matrices and the exception, if any.
heatmap_cell(ci, cj) ==
    heatmap_store(run(CellModel(bs_model, strike, spot_range[cj], vol_range[ci])),
                  ci, cj)

HeatmapApply(out, ci, cj) ==
    /\ bs_temp' = out.bs_temp
    /\ call_prices' = out.call_prices
    /\ put_prices' = out.put_prices
    /\ writes' = out.writes
    /\ exc' = out.exc
    /\ order' = Append(order, <<ci, cj>>)

HeatmapBody(ci, cj) == HeatmapApply(heatmap_cell(ci, cj), ci, cj)

\* One iteration of plot_heatmap's loops; after the last one the function
\* goes on to draw the matrices and returns.
HeatmapCell ==
    /\ pc = "plot_heatmap"
    /\ HeatmapBody(i, j)
    /\ LET nxt == NextCell(i, j, Len(vol_range), Len(spot_range))
       IN IF exc' # "none" THEN pc' = "raised" /\ i' = i /\ j' = j
          ELSE /\ pc' = IF nxt.last THEN "returned" ELSE pc
               /\ i' = nxt.i
               /\ j' = nxt.j
    /\ UNCHANGED <<bs_model, current, got, argVars, cell_prices, call_pnl, put_pnl>>

\* plot_pnl_heatmap(bs_model, spot_range, vol_range, strike,
\* purchase_price_call, purchase_price_put), up to the loops.
PnlStart(spots, vols, K, ppc, ppp) ==
    /\ Idle
    /\ HasRun(bs_model)
    /\ pc' = "plot_pnl_heatmap"
    /\ spot_range' = spots
    /\ vol_range' = vols
    /\ strike' = K
    /\ purchase_price_call' = ppc
    /\ purchase_price_put' = ppp
    /\ call_pnl' = Zeros(Len(vols), Len(spots))
    /\ put_pnl' = Zeros(Len(vols), Len(spots))
    /\ writes' = [call |-> Counts(Len(vols), Len(spots)),
                  put |-> Counts(Len(vols), Len(spots))]
    /\ order' = <<>>
    /\ i' = 1
    /\ j' = 1
    /\ UNCHANGED <<objVars, bs_temp, cell_prices, call_prices, put_prices>>

\* Lines 143-144 for the cell (ci, cj), reached when line 141 completed.
pnl_write(out, spot, ci, cj) ==
    [exc |-> out.exc,
     bs_temp |-> out.self,
     cell_prices |-> IF out.names.bound THEN out.names ELSE cell_prices,
     call_pnl |-> IF out.exc = "none"
                  THEN SetCell(call_pnl, ci, cj,
                               FSub(Max0(FSub(spot, strike)), purchase_price_call))
                  ELSE call_pnl,
     put_pnl |-> IF out.exc = "none"
                 THEN SetCell(put_pnl, ci, cj,
                              FSub(Max0(FSub(strike, spot)), purchase_price_put))
                 ELSE put_pnl,
     writes |-> IF out.exc = "none"
                THEN [call |-> Bump(writes.call, ci, cj),
                      put |-> Bump(writes.put, ci, cj)]
                ELSE writes]

\* One pass of plot_pnl_heatmap's loop body (lines 134-144) for (ci, cj).
pnl_cell(ci, cj) ==
    pnl_write(
        run_and_unpack(run(CellModel(bs_model, strike, spot_range[cj], vol_range[ci]))),
        spot_range[cj], ci, cj)

PnlApply(out, nxt) ==
    /\ bs_temp' = out.bs_temp
    /\ cell_prices' = out.cell_prices
    /\ call_pnl' = out.call_pnl
    /\ put_pnl' = out.put_pnl
    /\ writes' = out.writes
    /\ exc' = out.exc
    /\ order' = Append(order, <<i, j>>)
    /\ IF out.exc # "none" THEN pc' = "raised" /\ i' = i /\ j' = j
       ELSE /\ pc' = IF nxt.last THEN "returned" ELSE pc
            /\ i' = nxt.i
            /\ j' = nxt.j

\* One iteration of plot_pnl_heatmap's loops.
PnlCell ==
    /\ pc = "plot_pnl_heatmap"
    /\ PnlApply(pnl_cell(i, j), NextCell(i, j, Len(vol_range), Len(spot_range)))
    /\ UNCHANGED <<bs_model, current, got, argVars, call_prices, put_prices>>

\* --------------------------------------------------------- specifications
Next ==
    \/ \E T \in TimeValues, K \in StrikeValues, S \in SpotValues,
          sigma \in VolValues, r \in RateValues : Construct(T, K, S, sigma, r)
    \/ Run
    \/ \E name \in ParamNames \cup OutputNames : ReadAttr(name)
    \/ \E T \in TimeValues, K \in StrikeValues, S \in SpotValues,
          sigma \in VolValues, r \in RateValues : CurrentPoint(T, K, S, sigma, r)
    \/ \E spots \in SpotAxes, vols \in VolAxes, K \in SweepStrikes :
          HeatmapStart(spots, vols, K)
    \/ HeatmapCell
    \/ \E spots \in SpotAxes, vols \in VolAxes, K \in SweepStrikes,
          ppc \in PurchaseCallValues, ppp \in PurchasePutValues :
          PnlStart(spots, vols, K, ppc, ppp)
    \/ PnlCell

Spec == Init /\ [][Next]_vars

\* The cells of plot_heatmap evaluated in an arbitrary order: the same loop
\* body, applied to any cell not assigned yet. The sweeps of this
\* specification have at most MaxAnyOrderCells cells.
HeatmapStartAnyOrder(spots, vols, K) ==
    /\ Len(spots) * Len(vols) <= MaxAnyOrderCells
    /\ HeatmapStart(spots, vols, K)

HeatmapCellAnyOrder ==
    /\ pc = "plot_heatmap"
    /\ \E ci \in 1..Len(vol_range), cj \in 1..Len(spot_range) :
          /\ writes.call[ci][cj] = 0
          /\ writes.put[ci][cj] = 0
          /\ HeatmapBody(ci, cj)
          /\ i' = ci
          /\ j' = cj
    /\ pc' = IF exc' # "none" THEN "raised"
             ELSE IF Len(order') = Len(vol_range) * Len(spot_range) THEN "returned"
             ELSE pc
    /\ UNCHANGED <<bs_model, current, got, argVars, cell_prices, call_pnl, put_pnl>>

NextAnyOrder ==
    \/ \E T \in TimeValues, K \in StrikeValues, S \in SpotValues,
          sigma \in VolValues, r \in RateValues : Construct(T, K, S, sigma, r)
    \/ Run
    \/ \E spots \in SpotAxes, vols \in VolAxes, K \in SweepStrikes :
          HeatmapStartAnyOrder(spots, vols, K)
    \/ HeatmapCellAnyOrder

SpecAnyOrder == Init /\ [][NextAnyOrder]_vars

\* ------------------------------------------------------------- properties
Pos(x) == x.k = "fin" /\ x.v > 0
IsZero(x) == x.k = "fin" /\ x.v = 0

\* time_to_maturity, strike, spot and volatility > 0, any finite interest_rate.
ValidParams(obj) ==
    /\ Pos(obj.time_to_maturity)
    /\ Pos(obj.strike)
    /\ Pos(obj.current_price)
    /\ Pos(obj.volatility)
    /\ IsFinite(obj.interest_rate)

\* How many of time_to_maturity, strike, spot and volatility are 0.
ZeroParams(obj) ==
    Cardinality({f \in ParamNames \ {"interest_rate"} : IsZero(obj[f])})

\* BS.run() has been called on bs_model (BlackScholes.py:135) and ended.
RunAttempted ==
    /\ bs_model # NoObject
    /\ pc = "idle"
    /\ \/ exc = "ZeroDivisionError"
       \/ DOMAIN bs_model # ParamNames

InPnl == Len(call_pnl) > 0
InHeatmap == Len(call_prices) > 0
Rows == Len(vol_range)
Cols == Len(spot_range)

\* The instance after an evaluation of the given parameters.
Evaluate(T, K, S, sigma, r) == run(BlackScholes(T, K, S, sigma, r)).self

\* The evaluation the sweep's cell (a, b) stands for.
CellEvaluation(a, b) ==
    Evaluate(bs_model.time_to_maturity, strike, spot_range[b], vol_range[a],
             bs_model.interest_rate)

\* C1: an evaluation with exactly one of time_to_maturity, strike, spot and
\* volatility equal to 0 ends in an error (InvalidParameter; ZeroDivisionError
\* is let pass as one) and sets no price or Greek; an evaluation with none of
\* them 0, negative interest_rate included, completes and sets them.
C1_ZeroParameterRejected ==
    RunAttempted =>
        /\ ZeroParams(bs_model) = 1 =>
              /\ exc \in {"InvalidParameter", "ZeroDivisionError"}
              /\ DOMAIN bs_model = ParamNames
        /\ ZeroParams(bs_model) = 0 =>
              /\ exc \notin {"InvalidParameter", "ZeroDivisionError"}
              /\ HasRun(bs_model)

\* C2: a caller that unpacks call_price, put_price from what run() returns
\* (line 122 of the page, line 141 of the P&L sweep) completes without error
\* for valid parameters and holds the instance's two prices.
C2_RunReturnsPrices ==
    /\ (pc = "line122" /\ ValidParams(bs_model)) =>
          /\ exc = "none"
          /\ current.bound
          /\ current.value = [call_price |-> GetAttr(bs_model, "call_price"),
                              put_price |-> GetAttr(bs_model, "put_price")]
    /\ (InPnl /\ bs_temp # NoObject /\ ValidParams(bs_temp)) =>
          /\ exc = "none"
          /\ cell_prices.bound
          /\ cell_prices.value = [call_price |-> GetAttr(bs_temp, "call_price"),
                                  put_price |-> GetAttr(bs_temp, "put_price")]

\* C3: when plot_heatmap has finished, call_prices and put_prices have
\* len(vol_range) rows and len(spot_range) columns, and cell [a][b] is the
\* call (put) price of an evaluation of the base time_to_maturity and
\* interest_rate, the strike argument, spot_range[b] and vol_range[a].
C3_HeatmapCells ==
    (InHeatmap /\ pc = "returned") =>
        /\ Len(call_prices) = Rows
        /\ Len(put_prices) = Rows
        /\ \A a \in 1..Rows :
              /\ Len(call_prices[a]) = Cols
              /\ Len(put_prices[a]) = Cols
              /\ \A b \in 1..Cols :
                    /\ call_prices[a][b] = GetAttr(CellEvaluation(a, b), "call_price")
                    /\ put_prices[a][b] = GetAttr(CellEvaluation(a, b), "put_price")

C3_Witness ==
    /\ InHeatmap
    /\ pc = "returned"
    /\ Rows = 2
    /\ Cols = 3
    /\ ValidParams(bs_model)
    /\ strike # bs_model.strike
    /\ call_prices[2][3].k = "fin"
    /\ call_prices[2][3].v > 0

\* max(0, x) - price on the integers of two scale-Q values.
Intrinsic(x, price) == (IF x > 0 THEN x ELSE 0) - price

\* C4: the P&L sweep completes, and every cell it has evaluated holds the
\* intrinsic value at expiry minus the purchase price.
C4_PnlFilled ==
    InPnl =>
        /\ pc # "raised"
        /\ pc = "returned" => Len(order) = Rows * Cols
        /\ \A n \in 1..Len(order) :
              LET a == order[n][1]
                  b == order[n][2]
              IN /\ call_pnl[a][b].k = "fin"
                 /\ call_pnl[a][b].v =
                        Intrinsic(spot_range[b].v - strike.v, purchase_price_call.v)
                 /\ put_pnl[a][b].k = "fin"
                 /\ put_pnl[a][b].v =
                        Intrinsic(strike.v - spot_range[b].v, purchase_price_put.v)

\* The n-th cell (from 1) of a row-major walk over rows of cols cells.
RowMajor(n, cols) == <<((n - 1) \div cols) + 1, ((n - 1) % cols) + 1>>

\* C5: a sweep evaluates its cells in row-major order, volatility index
\* outside and spot index inside: the cells evaluated so far are the first
\* cells of that order, the loop indices name the next one, a sweep that
\* returned evaluated them all, and the cell (a, b) of a price matrix holds
\* the prices for vol_range[a] and spot_range[b].
C5_RowMajorOrder ==
    (InHeatmap \/ InPnl) =>
        /\ \A n \in 1..Len(order) : order[n] = RowMajor(n, Cols)
        /\ pc \in {"plot_heatmap", "plot_pnl_heatmap"} =>
              <<i, j>> = RowMajor(Len(order) + 1, Cols)
        /\ pc = "returned" => Len(order) = Rows * Cols
        /\ InHeatmap =>
              \A n \in 1..Len(order) :
                  call_prices[order[n][1]][order[n][2]] =
                      GetAttr(CellEvaluation(order[n][1], order[n][2]), "call_price")

C5_Witness ==
    /\ InHeatmap
    /\ pc = "returned"
    /\ Rows = 3
    /\ Cols = 2
    /\ order = <<<<1, 1>>, <<1, 2>>, <<2, 1>>, <<2, 2>>, <<3, 1>>, <<3, 2>>>>

\* call_price - put_price against spot - strike * e^(-r*T), both in units of
\* 1/(Q*Q), within a relative tolerance of 1e-9.
Parity(obj) ==
    LET discounted == FMul(obj.strike,
                           FExp(FNeg(FMul(obj.interest_rate, obj.time_to_maturity))))
        lhs == obj.call_price.v - obj.put_price.v
        rhs == (obj.current_price.v - discounted.v) * Q
    IN /\ obj.call_price.k = "fin"
       /\ obj.put_price.k = "fin"
       /\ Abs(lhs - rhs) <= Abs(rhs) \div (1000 * 1000 * 1000)

DeltaRelation(obj) ==
    /\ obj.call_delta =
          Cdf(calculate_d1(obj.time_to_maturity, obj.strike, obj.current_price,
                           obj.volatility, obj.interest_rate))
    /\ obj.call_delta.k = "fin"
    /\ obj.put_delta.k = "fin"
    /\ obj.put_delta.v = Q - obj.call_delta.v
    /\ obj.call_delta.v + obj.put_delta.v = Q

\* C7: after an evaluation of valid parameters put_delta is 1 - call_delta.
C7_PutDelta ==
    /\ (HasRun(bs_model) /\ ValidParams(bs_model)) => DeltaRelation(bs_model)
    /\ (HasRun(bs_temp) /\ ValidParams(bs_temp)) => DeltaRelation(bs_temp)

C7_Witness ==
    /\ HasRun(bs_model)
    /\ ValidParams(bs_model)
    /\ bs_model.call_delta.v > Q \div 2
    /\ bs_model.put_delta.v > 0
    /\ bs_model.put_delta.v < Q \div 2

SameParams(obj, other) == \A f \in ParamNames : obj[f] = other[f]

\* C8: no step changes a parameter of bs_model; a step of a sweep changes
\* neither bs_model nor the strike nor an axis, and the instance it evaluates
\* is one constructed for its cell.
C8_ParametersNeverMutated ==
    [][/\ bs_model # NoObject =>
             /\ bs_model' # NoObject
             /\ SameParams(bs_model', bs_model)
       /\ pc \in {"plot_heatmap", "plot_pnl_heatmap"} =>
             /\ bs_model' = bs_model
             /\ strike' = strike
             /\ spot_range' = spot_range
             /\ vol_range' = vol_range
             /\ bs_temp' # NoObject
             /\ SameParams(bs_temp',
                           BlackScholes(bs_model.time_to_maturity, strike,
                                        spot_range[j], vol_range[i],
                                        bs_model.interest_rate))]_vars

C8_Witness ==
    /\ HasRun(bs_model)
    /\ InHeatmap
    /\ pc = "returned"
    /\ Rows * Cols > 1

\* C9: whatever the order of the cell evaluations, no cell is assigned more
\* than once, a cell not assigned yet is as numpy.zeros left it, an assigned
\* cell holds the prices of its own evaluation, and a sweep that returned
\* assigned every cell once.
C9_OrderIndependent ==
    InHeatmap =>
        \A a \in 1..Rows, b \in 1..Cols :
            /\ writes.call[a][b] <= 1
            /\ writes.put[a][b] <= 1
            /\ pc = "returned" => writes.call[a][b] = 1 /\ writes.put[a][b] = 1
            /\ call_prices[a][b] =
                  IF writes.call[a][b] = 0 THEN Fin(0, TRUE)
                  ELSE GetAttr(CellEvaluation(a, b), "call_price")
            /\ put_prices[a][b] =
                  IF writes.put[a][b] = 0 THEN Fin(0, TRUE)
                  ELSE GetAttr(CellEvaluation(a, b), "put_price")

C9_Witness ==
    /\ InHeatmap
    /\ pc = "returned"
    /\ Rows = 2
    /\ Cols = 2
    /\ order = <<<<2, 2>>, <<1, 1>>, <<2, 1>>, <<1, 2>>>>
    /\ ValidParams(bs_model)

\* The six outputs of the formula for obj's parameters.
FormulaOutputs(obj) ==
    LET T == obj.time_to_maturity
        K == obj.strike
        S == obj.current_price
        sigma == obj.volatility
        r == obj.interest_rate
    IN [call_price |->
            call_option_price(T, K, S, r, calculate_d1(T, K, S, sigma, r),
                              calculate_d2(T, sigma, calculate_d1(T, K, S, sigma, r))),
        put_price |->
            put_option_price(T, K, S, r, calculate_d1(T, K, S, sigma, r),
                             calculate_d2(T, sigma, calculate_d1(T, K, S, sigma, r))),
        call_delta |-> Cdf(calculate_d1(T, K, S, sigma, r)),
        put_delta |-> FSub(One, Cdf(calculate_d1(T, K, S, sigma, r))),
        call_gamma |->
            FDiv(Pdf(calculate_d1(T, K, S, sigma, r)), FMul(FMul(K, sigma), FSqrt(T))),
        put_gamma |->
            FDiv(Pdf(calculate_d1(T, K, S, sigma, r)), FMul(FMul(K, sigma), FSqrt(T)))]

\* C10: an instance has either none of the six output attributes or all of
\* them; while it has none, reading one raises AttributeError; once it has
\* them they are the formula's values for its parameters, and reading one
\* gives that value.
C10_OutputsAfterRun ==
    bs_model # NoObject =>
        /\ \/ DOMAIN bs_model = ParamNames
           \/ DOMAIN bs_model = ParamNames \cup OutputNames
        /\ (DOMAIN bs_model = ParamNames /\ got.bound /\ got.name \in OutputNames) =>
              /\ IsRaised(got.value)
              /\ exc = "AttributeError"
        /\ HasRun(bs_model) =>
              /\ \A f \in OutputNames : bs_model[f] = FormulaOutputs(bs_model)[f]
              /\ (got.bound /\ got.name \in OutputNames) =>
                    /\ got.value = bs_model[got.name]
                    /\ exc = "none"

C10_Witness ==
    /\ bs_model # NoObject
    /\ ValidParams(bs_model)
    /\ got.bound
    /\ got.name = "put_gamma"
    /\ exc = "AttributeError"

====
